---- MODULE Spec2Model ----
(***************************************************************************)
(* Model of src/app.py: the lanternfly image service.  Three handlers      *)
(* (upload, gallery, health) in front of an external blob container.       *)
(*                                                                         *)
(* Strings are sequences of one-character strings, so that prefix tests,   *)
(* lower-casing, sanitising and Python's code-point ordering of strings    *)
(* are computed and not assumed.                                           *)
(***************************************************************************)
EXTENDS Integers, Sequences, FiniteSets, TLC

VARIABLES
    now,                \* the UTC wall clock, in seconds since midnight
    store,              \* the container: a set of blobs [name, data, content_type]
    pc,                 \* pc[r]: position of upload request r ("new", "put", "done")
    req,                \* req[r]: the multipart request r carries
    blob_name,          \* blob_name[r]: the local of upload() (line 62)
    stamp,              \* stamp[r]: the clock second _timestamped_name read for r
    resp,               \* resp[r]: the response upload() returned for r
    calls,              \* calls[r]: the upload_blob calls request r issued
    out,                \* the response gallery() or health() is returning
    enumerated,         \* how many blobs gallery()'s loop had read when it ended
    original_filename,  \* argument of _timestamped_name (specification SpecName)
    name_result         \* its result (specification SpecName)

vars == <<now, store, pc, req, blob_name, stamp, resp, calls, out, enumerated,
          original_filename, name_result>>

----------------------------------------------------------------------------
(* Bounds *)

MaxRequests == 2
StartSecond == 9
MaxTicks == 1
MaxLen == 3

Requests == 1..MaxRequests
Seconds == StartSecond..(StartSecond + MaxTicks)

----------------------------------------------------------------------------
(* Characters and strings *)

Chars ==
    {" ", "*", "-", ".", "/", "0", "1", "2", "3", "4", "5", "6", "7", "8", "9",
     ";", "A", "E", "G", "I", "M", "N", "P", "T", "_",
     "a", "c", "d", "e", "g", "i", "l", "m", "n", "o", "p", "t", "u", "x", "z"}

\* ord(c): the code point Python compares strings by
Ord(c) ==
    CASE c = " " -> 32 [] c = "*" -> 42 [] c = "-" -> 45 [] c = "." -> 46
      [] c = "/" -> 47 [] c = "0" -> 48 [] c = "1" -> 49 [] c = "2" -> 50
      [] c = "3" -> 51 [] c = "4" -> 52 [] c = "5" -> 53 [] c = "6" -> 54
      [] c = "7" -> 55 [] c = "8" -> 56 [] c = "9" -> 57 [] c = ";" -> 59
      [] c = "A" -> 65 [] c = "E" -> 69 [] c = "G" -> 71 [] c = "I" -> 73
      [] c = "M" -> 77 [] c = "N" -> 78 [] c = "P" -> 80 [] c = "T" -> 84
      [] c = "_" -> 95 [] c = "a" -> 97 [] c = "c" -> 99 [] c = "d" -> 100
      [] c = "e" -> 101 [] c = "g" -> 103 [] c = "i" -> 105 [] c = "l" -> 108
      [] c = "m" -> 109 [] c = "n" -> 110 [] c = "o" -> 111 [] c = "p" -> 112
      [] c = "t" -> 116 [] c = "u" -> 117 [] c = "x" -> 120 [] c = "z" -> 122

Chr(n) == CHOOSE c \in Chars : Ord(c) = n

IsUpper(c) == Ord(c) >= 65 /\ Ord(c) <= 90
IsLower(c) == Ord(c) >= 97 /\ Ord(c) <= 122
IsDigit(c) == Ord(c) >= 48 /\ Ord(c) <= 57

\* str.lower()
LowerChar(c) == IF IsUpper(c) THEN Chr(Ord(c) + 32) ELSE c
Lower(s) == [i \in 1..Len(s) |-> LowerChar(s[i])]

\* str.startswith(prefix)
StartsWith(s, prefix) ==
    /\ Len(s) >= Len(prefix)
    /\ \A i \in 1..Len(prefix) : s[i] = prefix[i]

\* s < t for Python strings: lexicographic by code point, a proper prefix first
StrLess(s, t) ==
    \E i \in 1..(Len(t)) :
        /\ \A j \in 1..(i - 1) : j <= Len(s) /\ s[j] = t[j]
        /\ \/ Len(s) = i - 1
           \/ Len(s) >= i /\ Ord(s[i]) < Ord(t[i])

----------------------------------------------------------------------------
(* werkzeug.utils.secure_filename, as called at line 43 (POSIX: os.sep is  *)
(* "/", os.path.altsep is None).  On the ASCII alphabet modelled here the  *)
(* NFKD / ascii-encode step changes nothing.                               *)

\* for sep in os.sep, os.path.altsep: filename = filename.replace(sep, " ")
ReplaceSep(s) == [i \in 1..Len(s) |-> IF s[i] = "/" THEN " " ELSE s[i]]

RECURSIVE LStrip(_, _)
LStrip(s, cs) ==
    IF s # <<>> /\ Head(s) \in cs THEN LStrip(Tail(s), cs) ELSE s

RECURSIVE RStrip(_, _)
RStrip(s, cs) ==
    IF s # <<>> /\ s[Len(s)] \in cs THEN RStrip(SubSeq(s, 1, Len(s) - 1), cs) ELSE s

\* str.strip(chars)
Strip(s, cs) == RStrip(LStrip(s, cs), cs)

\* a whitespace-trimmed string with every run of whitespace made one "_"
RECURSIVE JoinWords(_)
JoinWords(s) ==
    IF s = <<>> THEN <<>>
    ELSE IF Head(s) = " "
         THEN <<"_">> \o JoinWords(LStrip(s, {" "}))
         ELSE <<Head(s)>> \o JoinWords(Tail(s))

\* "_".join(filename.split())
SplitJoin(s) == JoinWords(Strip(s, {" "}))

\* a character _filename_ascii_strip_re = [^A-Za-z0-9_.-] leaves in place
IsSafeChar(c) == IsUpper(c) \/ IsLower(c) \/ IsDigit(c) \/ c \in {"_", ".", "-"}

\* _filename_ascii_strip_re.sub("", s)
AsciiStrip(s) == SelectSeq(s, IsSafeChar)

secure_filename(filename) ==
    Strip(AsciiStrip(SplitJoin(ReplaceSep(filename))), {".", "_"})

----------------------------------------------------------------------------
(* _timestamped_name, lines 42-46, with the clock second it reads *)

UploadLiteral == <<"u", "p", "l", "o", "a", "d">>

\* the day the modelled clock runs in: strftime's %Y%m%d and the literal T
DatePrefix == <<"2", "0", "2", "4", "0", "1", "0", "1", "T">>

Digit(n) == Chr(48 + n)

TwoDigitsUnpadded(n) == IF n < 10 THEN <<Digit(n)>> ELSE <<Digit(n \div 10), Digit(n % 10)>>
\* strftime's %H, %M, %S: two digits, zero padded
TwoDigits(n) == <<Digit(n \div 10), Digit(n % 10)>>

\* datetime.now(timezone.utc).strftime("%Y%m%dT%H%M%S") at clock second t
Strftime(t) ==
    DatePrefix \o TwoDigits(t \div 3600) \o TwoDigits((t \div 60) % 60)
               \o TwoDigits(t % 60)

\* line 43: `original_filename or "upload"` replaces only an empty ARGUMENT
_timestamped_name(filename, t) ==
    LET safe == secure_filename(IF filename = <<>> THEN UploadLiteral ELSE filename)
    IN  Strftime(t) \o <<"-">> \o safe

----------------------------------------------------------------------------
(* The multipart file part and _is_image_upload, lines 37-39 *)

ImagePrefix == <<"i", "m", "a", "g", "e", "/">>

RECURSIVE BeforeParams(_)
BeforeParams(s) ==
    IF s = <<>> \/ Head(s) = ";" THEN <<>> ELSE <<Head(s)>> \o BeforeParams(Tail(s))

MimetypeAsDeclared(content_type) == content_type
\* FileStorage.mimetype: the declared content type without its parameters,
\* lower-cased ("" when the part declares none)
Mimetype(content_type) == Lower(Strip(BeforeParams(content_type), {" "}))

\* (file_storage.mimetype or "").lower().startswith("image/")
_is_image_upload(f) == StartsWith(Lower(Mimetype(f.content_type)), ImagePrefix)

----------------------------------------------------------------------------
(* The container client *)

\* container_client.url
ContainerUrl == <<"u", "/", "c">>

BlobNames(s) == {b.name : b \in s}

\* container_client.upload_blob(name, data, overwrite, content_settings) when
\* the service accepts it: the blob of that name, if any, is replaced
upload_blob_keeps(s, name, data, overwrite, content_type) ==
    s \cup {[name |-> name, data |-> data, content_type |-> content_type]}
upload_blob_alone(s, name, data, overwrite, content_type) ==
    {[name |-> name, data |-> data, content_type |-> content_type]}
upload_blob(s, name, data, overwrite, content_type) ==
    IF overwrite \/ name \notin BlobNames(s)
    THEN {b \in s : b.name # name}
            \cup {[name |-> name, data |-> data, content_type |-> content_type]}
    ELSE s

\* one upload_blob call as the handler issued it, with what it raised ("" when
\* it returned)
PutCall(name, data, overwrite, content_type, raised) ==
    [name |-> name, data |-> data, overwrite |-> overwrite,
     content_type |-> content_type, raised |-> raised]

\* the orders in which container_client.list_blobs() may yield the blobs of s
RECURSIVE Listings(_)
Listings(s) ==
    IF s = {} THEN {<<>>}
    ELSE UNION {{<<b>> \o l : l \in Listings(s \ {b})} : b \in s}

\* the exceptions the storage client raises, by their str()
StoreErrors == {"AuthorizationFailure", "ServiceRequestError"}
Str(exc) == exc

----------------------------------------------------------------------------
(* Responses: jsonify(...) and the status code beside it *)

NoResponse == [kind |-> "none"]

\* lines 53, 57, 60
ClientError(message) == [ok |-> FALSE, error |-> message, status |-> 400]

\* lines 79, 96
ServerErrorGeneric(exc) == [ok |-> FALSE, error |-> "Internal Server Error", status |-> 500]
ServerError(exc) == [ok |-> FALSE, error |-> Str(exc), status |-> 500]

\* line 73
UploadUrl(name) == ContainerUrl \o <<"/">> \o name

\* line 89
ListedUrlNoSlash(name) == ContainerUrl \o name
ListedUrl(name) == ContainerUrl \o <<"/">> \o name

\* lines 52-60: the message of the first check that fails, "" when none does
ValidateTypeFirst(f) ==
    IF ~f.has_file THEN "Missing file"
    ELSE IF ~_is_image_upload(f) THEN "Only image/* content types are allowed"
    ELSE IF f.filename = <<>> THEN "Empty filename"
    ELSE ""
Validate(f) ==
    IF ~f.has_file THEN "Missing file"
    ELSE IF f.filename = <<>> THEN "Empty filename"
    ELSE IF ~_is_image_upload(f) THEN "Only image/* content types are allowed"
    ELSE ""

\* urls.sort(reverse=True), line 92: Python orders strings by code point
RECURSIVE InsertDesc(_, _)
InsertDesc(u, sorted) ==
    IF sorted = <<>> THEN <<u>>
    ELSE IF StrLess(Head(sorted), u) THEN <<u>> \o sorted
    ELSE <<Head(sorted)>> \o InsertDesc(u, Tail(sorted))

RECURSIVE SortDesc(_)
SortUnsorted(urls) == urls
SortDesc(urls) ==
    IF urls = <<>> THEN <<>>
    ELSE InsertDesc(urls[Len(urls)], SortDesc(SubSeq(urls, 1, Len(urls) - 1)))

\* lines 86-93: the response when the listing is read to its end
GalleryOk(listing) ==
    LET urls == [i \in 1..Len(listing) |-> ListedUrl(listing[i].name)]
    IN  [ok |-> TRUE, gallery |-> SortDesc(urls), status |-> 200]

\* lines 94-96: the response when the listing raised exc with `urls` built so far
GalleryFailedPartial(urls, exc) ==
    [ok |-> FALSE, error |-> Str(exc), gallery |-> urls, status |-> 500]
GalleryFailed(urls, exc) == ServerError(exc)

----------------------------------------------------------------------------
(* Requests *)

ImagePng == <<"i", "m", "a", "g", "e", "/", "p", "n", "g">>
ImageUpper == <<"I", "M", "A", "G", "E", "/", "P", "N", "G">>
ImageParam == <<"i", "m", "a", "g", "e", "/", "p", "n", "g", ";", "a">>
TextPlain == <<"t", "e", "x", "t", "/", "p", "l", "a", "i", "n">>

NoRequest == [has_file |-> FALSE, filename |-> <<>>, content_type |-> <<>>, data |-> 0]

\* request.files: without a part named "file", or with one
FileParts ==
    {NoRequest,
     [has_file |-> TRUE, filename |-> <<>>, content_type |-> ImagePng, data |-> 1],
     [has_file |-> TRUE, filename |-> <<>>, content_type |-> TextPlain, data |-> 1],
     [has_file |-> TRUE, filename |-> <<"a">>, content_type |-> TextPlain, data |-> 2],
     [has_file |-> TRUE, filename |-> <<"a">>, content_type |-> ImagePng, data |-> 1],
     [has_file |-> TRUE, filename |-> <<"a">>, content_type |-> ImageUpper, data |-> 2],
     [has_file |-> TRUE, filename |-> <<"/">>, content_type |-> ImageParam, data |-> 1]}

\* a blob somebody else put in the container
ForeignBlob == [name |-> <<"z">>, data |-> 1, content_type |-> ImagePng]

Init ==
    /\ now = StartSecond
    /\ store \in {{}, {ForeignBlob}}
    /\ pc = [r \in Requests |-> "new"]
    /\ req = [r \in Requests |-> NoRequest]
    /\ blob_name = [r \in Requests |-> <<>>]
    /\ stamp = [r \in Requests |-> 0]
    /\ resp = [r \in Requests |-> NoResponse]
    /\ calls = [r \in Requests |-> <<>>]
    /\ out = NoResponse
    /\ enumerated = 0
    /\ original_filename = <<>>
    /\ name_result = <<>>

nameVars == <<original_filename, name_result>>
galleryVars == <<out, enumerated>>

\* the wall clock passes a second
Tick ==
    /\ out = NoResponse
    /\ now < StartSecond + MaxTicks
    /\ now' = now + 1
    /\ UNCHANGED <<store, pc, req, blob_name, stamp, resp, calls, galleryVars, nameVars>>

\* upload(), lines 50-62: request r arrives, is validated and gets its name
UploadReceive(r) ==
    /\ out = NoResponse
    /\ pc[r] = "new"
    /\ \A q \in Requests : q < r => pc[q] # "new"
    /\ \E f \in FileParts :
        /\ req' = [req EXCEPT ![r] = f]
        /\ IF Validate(f) # ""
           THEN /\ resp' = [resp EXCEPT ![r] = ClientError(Validate(f))]
                /\ pc' = [pc EXCEPT ![r] = "done"]
                /\ UNCHANGED <<blob_name, stamp>>
           ELSE /\ blob_name' = [blob_name EXCEPT ![r] = _timestamped_name(f.filename, now)]
                /\ stamp' = [stamp EXCEPT ![r] = now]
                /\ pc' = [pc EXCEPT ![r] = "put"]
                /\ UNCHANGED resp
    /\ UNCHANGED <<now, store, calls, galleryVars, nameVars>>

\* upload(), lines 64-75: upload_blob returns, the URL is answered
UploadPut(r) ==
    /\ out = NoResponse
    /\ pc[r] = "put"
    /\ LET f == req[r]
           content_type == Mimetype(f.content_type)
       IN  /\ calls' = [calls EXCEPT ![r] =
                  Append(@, PutCall(blob_name[r], f.data, TRUE, content_type, ""))]
           /\ store' = upload_blob(store, blob_name[r], f.data, TRUE, content_type)
    /\ resp' = [resp EXCEPT ![r] =
                   [ok |-> TRUE, url |-> UploadUrl(blob_name[r]), status |-> 200]]
    /\ pc' = [pc EXCEPT ![r] = "done"]
    /\ UNCHANGED <<now, req, blob_name, stamp, galleryVars, nameVars>>

\* upload(), lines 64-71 and 77-79: upload_blob raises, the handler answers 500
UploadPutFails(r) ==
    /\ out = NoResponse
    /\ pc[r] = "put"
    /\ \E exc \in StoreErrors :
        LET f == req[r]
        IN  /\ calls' = [calls EXCEPT ![r] =
                   Append(@, PutCall(blob_name[r], f.data, TRUE,
                                     Mimetype(f.content_type), exc))]
            /\ resp' = [resp EXCEPT ![r] = ServerError(exc)]
    /\ pc' = [pc EXCEPT ![r] = "done"]
    /\ UNCHANGED <<now, store, req, blob_name, stamp, galleryVars, nameVars>>

\* gallery(), lines 83-93
Gallery ==
    /\ out = NoResponse
    /\ \E listing \in Listings(store) :
        /\ out' = GalleryOk(listing)
        /\ enumerated' = Len(listing)
    /\ UNCHANGED <<now, store, pc, req, blob_name, stamp, resp, calls, nameVars>>

\* gallery(), lines 83-89 and 94-96: list_blobs() or its iteration raises
GalleryFails ==
    /\ out = NoResponse
    /\ \E listing \in Listings(store), k \in 0..Cardinality(store), exc \in StoreErrors :
        /\ out' = GalleryFailed([i \in 1..k |-> ListedUrl(listing[i].name)], exc)
        /\ enumerated' = k
    /\ UNCHANGED <<now, store, pc, req, blob_name, stamp, resp, calls, nameVars>>

\* health(), lines 99-101
Health ==
    /\ out = NoResponse
    /\ out' = [ok |-> TRUE, status |-> 200]
    /\ UNCHANGED <<now, store, pc, req, blob_name, stamp, resp, calls, enumerated, nameVars>>

\* the response of gallery() or health() leaves with the return (lines 93, 96, 101)
Respond ==
    /\ out # NoResponse
    /\ out' = NoResponse
    /\ enumerated' = 0
    /\ UNCHANGED <<now, store, pc, req, blob_name, stamp, resp, calls, nameVars>>

Next ==
    \/ Tick
    \/ \E r \in Requests : UploadReceive(r)
    \/ \E r \in Requests : UploadPut(r)
    \/ \E r \in Requests : UploadPutFails(r)
    \/ Gallery
    \/ GalleryFails
    \/ Health
    \/ Respond

Spec == Init /\ [][Next]_vars

----------------------------------------------------------------------------
(* _timestamped_name alone, over every short filename *)

NameChars == {"a", ".", "/", " ", "*"}

RECURSIVE StringsUpTo(_)
StringsUpTo(n) ==
    IF n = 0 THEN {<<>>}
    ELSE StringsUpTo(n - 1)
            \cup {Append(s, c) : s \in {t \in StringsUpTo(n - 1) : Len(t) = n - 1},
                                 c \in NameChars}

InitName ==
    /\ now \in Seconds
    /\ store = {}
    /\ pc = [r \in Requests |-> "new"]
    /\ req = [r \in Requests |-> NoRequest]
    /\ blob_name = [r \in Requests |-> <<>>]
    /\ stamp = [r \in Requests |-> 0]
    /\ resp = [r \in Requests |-> NoResponse]
    /\ calls = [r \in Requests |-> <<>>]
    /\ out = NoResponse
    /\ enumerated = 0
    /\ original_filename \in StringsUpTo(MaxLen)
    /\ name_result = <<>>

\* blob_name = _timestamped_name(f.filename), line 62
ApplyName ==
    /\ name_result = <<>>
    /\ name_result' = _timestamped_name(original_filename, now)
    /\ UNCHANGED <<now, store, pc, req, blob_name, stamp, resp, calls, galleryVars,
                   original_filename>>

NextName == ApplyName

SpecName == InitName /\ [][NextName]_vars

----------------------------------------------------------------------------
(* Properties *)

Done(r) == pc[r] = "done"
Succeeded(r) == Done(r) /\ resp[r].ok
IsGalleryOk == out # NoResponse /\ "gallery" \in DOMAIN out /\ out.ok
IsGalleryError == out # NoResponse /\ "error" \in DOMAIN out

\* what the part declares, compared without regard to case
DeclaresImage(f) == StartsWith(Lower(f.content_type), ImagePrefix)

FirstFailure(f) ==
    IF ~f.has_file THEN "Missing file"
    ELSE IF f.filename = <<>> THEN "Empty filename"
    ELSE IF ~DeclaresImage(f) THEN "Only image/* content types are allowed"
    ELSE ""

C1_Answer ==
    \A r \in Requests :
        (pc[r] # "new" /\ FirstFailure(req[r]) # "") =>
            /\ Done(r)
            /\ resp[r] = [ok |-> FALSE, error |-> FirstFailure(req[r]), status |-> 400]
            /\ calls[r] = <<>>

C1_StoreUntouched ==
    \A r \in Requests :
        (pc[r] = "new" /\ pc'[r] # "new" /\ FirstFailure(req'[r]) # "") =>
            store' = store

\* C1: an upload that fails validation is answered 400 with the message of the
\* first failing check (missing file, empty filename, non-image type), issues
\* no put and leaves the store as it was.
C1_ValidationRejects == [](C1_Answer) /\ [][C1_StoreUntouched]_vars

C1_Witness ==
    \E r \in Requests :
        /\ Done(r) /\ req[r].has_file /\ req[r].filename = <<>>
        /\ req[r].content_type = TextPlain
        /\ resp[r].status = 400
        /\ store # {}

\* the URL and the single put C2 describes, with the content type `ct`
C2_Shape(r, ct) ==
    LET key == _timestamped_name(req[r].filename, stamp[r])
    IN  /\ resp[r] = [ok |-> TRUE, url |-> ContainerUrl \o <<"/">> \o key, status |-> 200]
        /\ blob_name[r] = key
        /\ Len(calls[r]) = 1
        /\ calls[r][1].name = key
        /\ calls[r][1].data = req[r].data
        /\ calls[r][1].content_type = ct
        /\ calls[r][1].raised = ""

\* C2 as stated: a validated upload whose put succeeds is answered 200 with
\* <store-base-url>/<key> and issued exactly one put, under that key, with the
\* request's bytes and its declared content type.
C2_AsStated ==
    \A r \in Requests :
        (Done(r) /\ FirstFailure(req[r]) = "" /\ calls[r] # <<>> /\ calls[r][1].raised = "")
            => C2_Shape(r, req[r].content_type)

\* C2 amended: ... with the request's bytes and the mimetype of its declared
\* content type, that is the declared type without parameters, in lower case.
C2_SuccessfulUpload ==
    \A r \in Requests :
        (Done(r) /\ FirstFailure(req[r]) = "" /\ calls[r] # <<>> /\ calls[r][1].raised = "")
            => C2_Shape(r, Lower(BeforeParams(req[r].content_type)))

C2_Witness ==
    \E r \in Requests :
        /\ Succeeded(r)
        /\ req[r].content_type = ImageParam
        /\ calls[r][1].content_type = ImagePng

\* C3: for every non-empty filename the key is <YYYYMMDDTHHMMSS>-<sanitized>,
\* <sanitized> non-empty and free of separators and unsafe characters, and it is
\* the literal "upload" when sanitizing the filename leaves nothing.
C3_KeyIsSanitized ==
    (name_result # <<>> /\ original_filename # <<>>) =>
        LET stampLen == Len(Strftime(now)) + 1
            sanitized == SubSeq(name_result, stampLen + 1, Len(name_result))
        IN  /\ SubSeq(name_result, 1, stampLen) = Strftime(now) \o <<"-">>
            /\ sanitized # <<>>
            /\ \A i \in 1..Len(sanitized) : IsSafeChar(sanitized[i])
            /\ secure_filename(original_filename) = <<>> => sanitized = UploadLiteral

\* how often u occurs in the sequence g
Count(g, u) == Cardinality({i \in 1..Len(g) : g[i] = u})

StoreUrls == {ContainerUrl \o <<"/">> \o b.name : b \in store}

\* C4: a gallery request whose listing succeeds is answered 200 with exactly
\* one URL <store-base-url>/<object-key> per stored object, in descending
\* lexicographic order of the URL strings.
C4_GalleryListsAllDescending ==
    IsGalleryOk =>
        /\ out.status = 200
        /\ Len(out.gallery) = Cardinality(store)
        /\ \A u \in StoreUrls : Count(out.gallery, u) = 1
        /\ \A i, j \in 1..Len(out.gallery) :
              i < j => ~StrLess(out.gallery[i], out.gallery[j])

C4_Witness ==
    /\ IsGalleryOk
    /\ Len(out.gallery) >= 3
    /\ \E i \in 1..(Len(out.gallery) - 1) :
          StartsWith(out.gallery[i], out.gallery[i + 1])

\* every blob of the store was written by a successful upload
OnlyUploads == \A b \in store : \E r \in Requests : Succeeded(r) /\ blob_name[r] = b.name

\* C5: in a successful gallery over a store holding only uploads, the URL of an
\* upload named in a later UTC second comes before the URL of one named in an
\* earlier second, whatever the filenames.
C5_NewestFirst ==
    (IsGalleryOk /\ OnlyUploads) =>
        \A r1, r2 \in Requests :
            (Succeeded(r1) /\ Succeeded(r2) /\ stamp[r1] < stamp[r2]) =>
                /\ Count(out.gallery, resp[r1].url) = 1
                /\ Count(out.gallery, resp[r2].url) = 1
                /\ \A i, j \in 1..Len(out.gallery) :
                      (out.gallery[i] = resp[r2].url /\ out.gallery[j] = resp[r1].url)
                          => i < j

C5_Witness ==
    /\ IsGalleryOk /\ OnlyUploads
    /\ \E r1, r2 \in Requests :
          /\ Succeeded(r1) /\ Succeeded(r2) /\ stamp[r1] < stamp[r2]
          /\ req[r1].filename = <<"a">> /\ req[r2].filename = <<"/">>

PutFailed(r) == Done(r) /\ calls[r] # <<>> /\ calls[r][Len(calls[r])].raised # ""

C6_Answer ==
    \A r \in Requests :
        PutFailed(r) =>
            /\ Len(calls[r]) = 1
            /\ resp[r] = [ok |-> FALSE, error |-> calls[r][1].raised, status |-> 500]

C6_StoreUntouched ==
    \A r \in Requests : (pc[r] = "put" /\ PutFailed(r)') => store' = store

\* C6: a validated upload whose put fails is answered 500 with the error's
\* string, issued the put once only, and leaves the store as it was.
C6_FailedPut == [](C6_Answer) /\ [][C6_StoreUntouched]_vars

C6_Witness ==
    \E r \in Requests :
        /\ PutFailed(r)
        /\ resp[r].error = "ServiceRequestError"
        /\ store # {}

\* C7: a gallery request whose listing fails, at whatever point, is answered
\* 500 with the error string and no gallery at all.
C7_FailedListing ==
    IsGalleryError =>
        /\ DOMAIN out = {"ok", "error", "status"}
        /\ out.ok = FALSE
        /\ out.status = 500
        /\ out.error \in StoreErrors

C7_Witness == IsGalleryError /\ enumerated >= 1 /\ enumerated < Cardinality(store)

ForeignNames == {ForeignBlob.name} \cap BlobNames(store)

\* C8: two successful uploads of one filename named in the same UTC second have
\* the same key and the same URL, and the store holds one object under that key:
\* together they added one object, not two.
C8_SameSecondSameKey ==
    \A r1, r2 \in Requests :
        (r1 # r2 /\ Succeeded(r1) /\ Succeeded(r2)
            /\ req[r1].filename = req[r2].filename /\ stamp[r1] = stamp[r2]) =>
            /\ blob_name[r1] = blob_name[r2]
            /\ resp[r1].url = resp[r2].url
            /\ Cardinality({b \in store : b.name = blob_name[r1]}) = 1
            /\ Cardinality(store) =
                  Cardinality(ForeignNames \cup {blob_name[r] : r \in {q \in Requests : Succeeded(q)}})

C8_Witness ==
    \E r1, r2 \in Requests :
        /\ r1 # r2 /\ Succeeded(r1) /\ Succeeded(r2)
        /\ req[r1].filename = req[r2].filename /\ stamp[r1] = stamp[r2]
        /\ req[r1].data # req[r2].data

\* C9 as stated: no request changes the bytes or the content type of a stored
\* object, and none removes it.
C9_AsStated == [][\A b \in store : b \in store']_vars

\* C9 amended: no request removes a stored object, and its bytes and content
\* type change only when a later upload that generated the same key succeeds
\* and overwrites it.
C9_OnlyOverwritten ==
    [][\A b \in store :
          /\ \E c \in store' : c.name = b.name
          /\ b \notin store' =>
                \E r \in Requests :
                    /\ pc[r] = "put" /\ Succeeded(r)'
                    /\ blob_name[r] = b.name
                    /\ [name |-> b.name, data |-> req[r].data,
                        content_type |-> Lower(BeforeParams(req[r].content_type))] \in store']_vars

C9_Witness ==
    \E r1, r2 \in Requests :
        /\ r1 # r2 /\ Succeeded(r1) /\ Succeeded(r2)
        /\ blob_name[r1] = blob_name[r2]
        /\ req[r1].data # req[r2].data
        /\ Cardinality(store) >= 2

\* C10: every URL a successful upload returned is in every later successful
\* gallery, as the same string and once only, also after colliding uploads.
C10_RoundTrip ==
    IsGalleryOk =>
        \A r \in Requests : Succeeded(r) => Count(out.gallery, resp[r].url) = 1

C10_Witness ==
    /\ IsGalleryOk
    /\ \E r1, r2 \in Requests :
          r1 # r2 /\ Succeeded(r1) /\ Succeeded(r2) /\ resp[r1].url = resp[r2].url

====
